---- MODULE Spec2Model ----
(***************************************************************************)
(* Quality-adjusted power, block-reward projection, initial pledge and    *)
(* the invariant-check helpers of builtin-actors:                         *)
(*   src/actors/power/src/ext.rs          (mod miner)                     *)
(*   src/integration_tests/src/util/mod.rs (check/assert/expect)          *)
(*                                                                         *)
(* The functions are pure.  Each engine is a harness that makes one call  *)
(* per behaviour: an action calls one function on inputs drawn from       *)
(* bounded sets and records the call: its arguments, whether it returned  *)
(* or panicked, and what it returned.                                     *)
(*                                                                         *)
(* BigInt is arbitrary precision; TLC's integers are 32 bits.  The        *)
(* inputs are therefore kept small, and the Q.128 format of               *)
(* FilterEstimate is scaled to Q.PRECISION with the same shifts.          *)
(***************************************************************************)
EXTENDS Integers, Sequences, FiniteSets

VARIABLES
    qcall,      \* last call into the quality-adjusted power engine
    pcall,      \* last call into the pledge & reward projection engine
    vm,         \* the test VM: its epoch and the committed state snapshot
    vcall       \* last call into the invariant-check helpers

vars == <<qcall, pcall, vm, vcall>>

----------------------------------------------------------------------------
(* BigInt arithmetic *)

RECURSIVE Pow2(_)
Pow2(n) == IF n = 0 THEN 1 ELSE 2 * Pow2(n - 1)

\* BigInt << n
Shl(x, n) == x * Pow2(n)

\* BigInt >> n: an arithmetic shift, rounding towards negative infinity
Shr(x, n) == x \div Pow2(n)

\* Integer::div_floor; the caller has excluded b = 0 (a panic)
DivFloor(a, b) == a \div b

Max(a, b) == IF a >= b THEN a ELSE b
Min(a, b) == IF a <= b THEN a ELSE b

----------------------------------------------------------------------------
(* Quality-adjusted power engine *)

QUALITY_BASE_MULTIPLIER == 10
DEAL_WEIGHT_MULTIPLIER == 10
VERIFIED_DEAL_WEIGHT_MULTIPLIER == 100
SECTOR_QUALITY_PRECISION == 20

\* Bounds of the inputs.  Sector sizes stand for byte counts; the largest
\* spacetime keeps (100 * size * duration) << 20 inside TLC's integers.
MaxSize == 3
MaxDuration == 4

SectorSizes == 1..MaxSize
Durations == 0..MaxDuration
DealWeights == 0..(MaxSize * MaxDuration)

\* quality_for_weight with the base multiplier left out of the final divisor
quality_for_weight_undivided(size, duration, deal_weight, verified_weight) ==
    LET sector_space_time == size * duration
        total_deal_space_time == deal_weight + verified_weight
        weighted_sum_space_time ==
            (sector_space_time - total_deal_space_time) * QUALITY_BASE_MULTIPLIER
            + deal_weight * DEAL_WEIGHT_MULTIPLIER
            + verified_weight * VERIFIED_DEAL_WEIGHT_MULTIPLIER
    IN  DivFloor(Shl(weighted_sum_space_time, SECTOR_QUALITY_PRECISION),
                 sector_space_time)

\* quality_for_weight giving verified deals the multiplier of ordinary deals
quality_for_weight_flat(size, duration, deal_weight, verified_weight) ==
    LET sector_space_time == size * duration
        total_deal_space_time == deal_weight + verified_weight
        weighted_sum_space_time ==
            (sector_space_time - total_deal_space_time) * QUALITY_BASE_MULTIPLIER
            + deal_weight * DEAL_WEIGHT_MULTIPLIER
            + verified_weight * DEAL_WEIGHT_MULTIPLIER
    IN  DivFloor(DivFloor(Shl(weighted_sum_space_time, SECTOR_QUALITY_PRECISION),
                          sector_space_time),
                 QUALITY_BASE_MULTIPLIER)

quality_for_weight(size, duration, deal_weight, verified_weight) ==
    LET sector_space_time == size * duration
        total_deal_space_time == deal_weight + verified_weight
        weighted_base_space_time ==
            (sector_space_time - total_deal_space_time) * QUALITY_BASE_MULTIPLIER
        weighted_deal_space_time == deal_weight * DEAL_WEIGHT_MULTIPLIER
        weighted_verified_space_time ==
            verified_weight * VERIFIED_DEAL_WEIGHT_MULTIPLIER
        weighted_sum_space_time ==
            weighted_base_space_time + weighted_deal_space_time
            + weighted_verified_space_time
        scaled_up_weighted_sum_space_time ==
            Shl(weighted_sum_space_time, SECTOR_QUALITY_PRECISION)
    IN  DivFloor(DivFloor(scaled_up_weighted_sum_space_time, sector_space_time),
                 QUALITY_BASE_MULTIPLIER)

\* qa_power_for_weight without the shift back from Q.20
qa_power_for_weight_unshifted(size, duration, deal_weight, verified_weight) ==
    LET quality == quality_for_weight(size, duration, deal_weight, verified_weight)
    IN  size * quality

qa_power_for_weight(size, duration, deal_weight, verified_weight) ==
    LET quality == quality_for_weight(size, duration, deal_weight, verified_weight)
    IN  Shr(size * quality, SECTOR_QUALITY_PRECISION)

NoCall == [fn |-> "none"]

\* A call of quality_for_weight.  div_floor by a zero sector spacetime panics.
QualityForWeight ==
    \E size \in SectorSizes, duration \in Durations,
       deal_weight \in DealWeights, verified_weight \in DealWeights :
        /\ qcall = NoCall
        /\ qcall' = [fn |-> "quality_for_weight",
                     size |-> size, duration |-> duration,
                     deal_weight |-> deal_weight,
                     verified_weight |-> verified_weight,
                     outcome |-> IF size * duration = 0 THEN "panicked"
                                 ELSE "returned",
                     result |-> IF size * duration = 0 THEN 0
                                ELSE quality_for_weight(size, duration,
                                         deal_weight, verified_weight)]
        /\ UNCHANGED <<pcall, vm, vcall>>

\* A call of qa_power_for_weight, which calls quality_for_weight first.
QaPowerForWeight ==
    \E size \in SectorSizes, duration \in Durations,
       deal_weight \in DealWeights, verified_weight \in DealWeights :
        /\ qcall = NoCall
        /\ qcall' = [fn |-> "qa_power_for_weight",
                     size |-> size, duration |-> duration,
                     deal_weight |-> deal_weight,
                     verified_weight |-> verified_weight,
                     outcome |-> IF size * duration = 0 THEN "panicked"
                                 ELSE "returned",
                     result |-> IF size * duration = 0 THEN 0
                                ELSE qa_power_for_weight(size, duration,
                                         deal_weight, verified_weight)]
        /\ UNCHANGED <<pcall, vm, vcall>>

----------------------------------------------------------------------------
(* Pledge & reward projection engine *)

\* reward::math::PRECISION, the fractional bits of a FilterEstimate.  The
\* program's value is 128; the model keeps the format and scales the width.
PRECISION == 2

EPOCHS_IN_DAY == 2880
INITIAL_PLEDGE_FACTOR == 20
INITIAL_PLEDGE_PROJECTION_PERIOD == INITIAL_PLEDGE_FACTOR * EPOCHS_IN_DAY
LOCK_TARGET_FACTOR_NUM == 3
LOCK_TARGET_FACTOR_DENOM == 10

\* TokenAmount::from_whole(n) in atto, n * 10^18, as base-1000 limbs with the
\* most significant first (the amount does not fit a TLC integer)
from_whole(n) == <<n, 0, 0, 0, 0, 0, 0>>

\* Long division of a limb sequence by d, from limb i with remainder rem
RECURSIVE DivLimbsFrom(_, _, _, _)
DivLimbsFrom(limbs, d, i, rem) ==
    IF i > Len(limbs) THEN <<>>
    ELSE LET cur == rem * 1000 + limbs[i]
         IN  <<cur \div d>> \o DivLimbsFrom(limbs, d, i + 1, cur % d)

\* div_floor of a limb sequence by a positive d
DivLimbs(limbs, d) == DivLimbsFrom(limbs, d, 1, 0)

RECURSIVE LimbsValue(_)
LimbsValue(limbs) ==
    IF limbs = <<>> THEN 0
    ELSE LimbsValue(SubSeq(limbs, 1, Len(limbs) - 1)) * 1000 + limbs[Len(limbs)]

\* TokenAmount::from_whole(1).div_floor(32 << 30), in atto per byte.
\* 32 << 30 = 2^5 * 2^15 * 2^15, and floor(floor(x / a) / b) = floor(x / (a * b)).
INITIAL_PLEDGE_MAX_PER_BYTE ==
    LimbsValue(DivLimbs(DivLimbs(DivLimbs(from_whole(1), Pow2(5)), Pow2(15)),
                        Pow2(15)))

\* FilterEstimate::estimate: the integer part of the position
estimate(e) == Shr(e.position, PRECISION)

\* smooth::extrapolated_cum_sum_of_ratio(delta, relative_start, num, denom):
\* the Q.PRECISION sum over [relative_start, relative_start + delta) of the
\* ratio of two estimates taken as linear in the epoch offset, in closed form
\* at the midpoint of the window.
extrapolated_cum_sum_of_ratio(delta, relative_start, est_num, est_denom) ==
    LET delta_t == Shl(delta, PRECISION)
        t0 == Shl(relative_start, PRECISION)
        half_delta == Shr(delta_t, 1)
        x1m == Shr(est_num.velocity * (t0 + half_delta), PRECISION)
               + est_num.position
        x2m == Shr(est_denom.velocity * (t0 + half_delta), PRECISION)
               + est_denom.position
    IN  DivFloor(x1m * delta_t, x2m)

\* expected_reward_for_power without the clamp of a negative projection
expected_reward_for_power_unclamped(reward_estimate, network_qa_power_estimate, qa_sector_power, projection_duration) ==
    LET network_qa_power_smoothed == estimate(network_qa_power_estimate)
    IN  IF network_qa_power_smoothed = 0
        THEN [value |-> estimate(reward_estimate), ratio_sums |-> 0]
        ELSE LET expected_reward_for_proving_period ==
                     extrapolated_cum_sum_of_ratio(projection_duration, 0,
                         reward_estimate, network_qa_power_estimate)
                 br128 == qa_sector_power * expected_reward_for_proving_period
             IN  [value |-> Shr(br128, PRECISION), ratio_sums |-> 1]

\* expected_reward_for_power returning the raw position in the degenerate branch
expected_reward_for_power_raw_position(reward_estimate, network_qa_power_estimate, qa_sector_power, projection_duration) ==
    LET network_qa_power_smoothed == estimate(network_qa_power_estimate)
    IN  IF network_qa_power_smoothed = 0
        THEN [value |-> reward_estimate.position, ratio_sums |-> 0]
        ELSE LET expected_reward_for_proving_period ==
                     extrapolated_cum_sum_of_ratio(projection_duration, 0,
                         reward_estimate, network_qa_power_estimate)
                 br128 == qa_sector_power * expected_reward_for_proving_period
             IN  [value |-> Max(Shr(br128, PRECISION), 0), ratio_sums |-> 1]

\* The projected block reward of a sector: its value, and how many times the
\* ratio sum was evaluated on the way.
expected_reward_for_power(reward_estimate, network_qa_power_estimate, qa_sector_power, projection_duration) ==
    LET network_qa_power_smoothed == estimate(network_qa_power_estimate)
    IN  IF network_qa_power_smoothed = 0
        THEN [value |-> estimate(reward_estimate), ratio_sums |-> 0]
        ELSE LET expected_reward_for_proving_period ==
                     extrapolated_cum_sum_of_ratio(projection_duration, 0,
                         reward_estimate, network_qa_power_estimate)
                 br128 == qa_sector_power * expected_reward_for_proving_period
             IN  [value |-> Max(Shr(br128, PRECISION), 0), ratio_sums |-> 1]

\* the clamp comparing with lt instead of le: a zero reward stays zero
expected_reward_for_power_clamped_at_atto_fil_lt(reward_estimate, network_qa_power_estimate, qa_sector_power, projection_duration) ==
    LET br == expected_reward_for_power(reward_estimate,
                  network_qa_power_estimate, qa_sector_power,
                  projection_duration)
    IN  IF br.value < 0 THEN [br EXCEPT !.value = 1] ELSE br

expected_reward_for_power_clamped_at_atto_fil(reward_estimate, network_qa_power_estimate, qa_sector_power, projection_duration) ==
    LET br == expected_reward_for_power(reward_estimate,
                  network_qa_power_estimate, qa_sector_power,
                  projection_duration)
    IN  IF br.value <= 0 THEN [br EXCEPT !.value = 1] ELSE br

\* initial_pledge_for_power taking the larger of the nominal pledge and the cap
initial_pledge_for_power_max(qa_power, baseline_power, reward_estimate, network_qa_power_estimate, circulating_supply) ==
    LET ip_base == expected_reward_for_power_clamped_at_atto_fil(
                       reward_estimate, network_qa_power_estimate, qa_power,
                       INITIAL_PLEDGE_PROJECTION_PERIOD).value
        lock_target_num == circulating_supply * LOCK_TARGET_FACTOR_NUM
        lock_target_denom == LOCK_TARGET_FACTOR_DENOM
        pledge_share_num == qa_power
        network_qa_power == estimate(network_qa_power_estimate)
        pledge_share_denom == Max(Max(network_qa_power, baseline_power), qa_power)
        additional_ip_num == lock_target_num * pledge_share_num
        additional_ip_denom == pledge_share_denom * lock_target_denom
    IN  IF additional_ip_denom = 0
        THEN [outcome |-> "panicked", value |-> 0]
        ELSE LET additional_ip == DivFloor(additional_ip_num, additional_ip_denom)
                 nominal_pledge == ip_base + additional_ip
                 pledge_cap == INITIAL_PLEDGE_MAX_PER_BYTE * qa_power
             IN  [outcome |-> "returned", value |-> Max(nominal_pledge, pledge_cap)]

\* initial_pledge_for_power flooring the lock target before taking the share
initial_pledge_for_power_floored_lock_target(qa_power, baseline_power, reward_estimate, network_qa_power_estimate, circulating_supply) ==
    LET ip_base == expected_reward_for_power_clamped_at_atto_fil(
                       reward_estimate, network_qa_power_estimate, qa_power,
                       INITIAL_PLEDGE_PROJECTION_PERIOD).value
        lock_target == DivFloor(circulating_supply * LOCK_TARGET_FACTOR_NUM,
                                LOCK_TARGET_FACTOR_DENOM)
        network_qa_power == estimate(network_qa_power_estimate)
        pledge_share_denom == Max(Max(network_qa_power, baseline_power), qa_power)
    IN  IF pledge_share_denom = 0
        THEN [outcome |-> "panicked", value |-> 0]
        ELSE LET additional_ip == DivFloor(lock_target * qa_power, pledge_share_denom)
                 nominal_pledge == ip_base + additional_ip
                 pledge_cap == INITIAL_PLEDGE_MAX_PER_BYTE * qa_power
             IN  [outcome |-> "returned", value |-> Min(nominal_pledge, pledge_cap)]

\* The pledge requirement.  div_floor by a zero additional_ip_denom panics.
initial_pledge_for_power(qa_power, baseline_power, reward_estimate, network_qa_power_estimate, circulating_supply) ==
    LET ip_base == expected_reward_for_power_clamped_at_atto_fil(
                       reward_estimate, network_qa_power_estimate, qa_power,
                       INITIAL_PLEDGE_PROJECTION_PERIOD).value
        lock_target_num == circulating_supply * LOCK_TARGET_FACTOR_NUM
        lock_target_denom == LOCK_TARGET_FACTOR_DENOM
        pledge_share_num == qa_power
        network_qa_power == estimate(network_qa_power_estimate)
        pledge_share_denom == Max(Max(network_qa_power, baseline_power), qa_power)
        additional_ip_num == lock_target_num * pledge_share_num
        additional_ip_denom == pledge_share_denom * lock_target_denom
    IN  IF additional_ip_denom = 0
        THEN [outcome |-> "panicked", value |-> 0]
        ELSE LET additional_ip == DivFloor(additional_ip_num, additional_ip_denom)
                 nominal_pledge == ip_base + additional_ip
                 pledge_cap == INITIAL_PLEDGE_MAX_PER_BYTE * qa_power
             IN  [outcome |-> "returned", value |-> Min(nominal_pledge, pledge_cap)]

\* Bounds of the inputs
MaxQaPower == 2
MaxBaselinePower == 3
MaxProjection == 3

QaPowers == 0..MaxQaPower
BaselinePowers == 0..MaxBaselinePower
ProjectionDurations == (-1)..MaxProjection

\* Reward positions, in Q.PRECISION: current values -2, -1, 0, 0, 1 and 3
RewardPositions ==
    {-Pow2(PRECISION) - 1, -1, 0, 1, Pow2(PRECISION), 3 * Pow2(PRECISION) + 1}
RewardVelocities == {-3, 0, 1}

\* Network QA power positions, in Q.PRECISION: current values 0, 0, 1 and 2
NetworkPositions == {0, Pow2(PRECISION) - 1, Pow2(PRECISION), 2 * Pow2(PRECISION) + 1}
NetworkVelocities == {0, 1}

\* Circulating supplies in atto: none, two that 10 does not divide, and two
\* large enough for the additional pledge to pass the per-byte cap
CirculatingSupplies == {0, 5, 7, 100000000, 200000000}

RewardEstimates == [position : RewardPositions, velocity : RewardVelocities]
NetworkEstimates == [position : NetworkPositions, velocity : NetworkVelocities]

\* Over the 57600 epochs of the pledge projection a moving reward estimate
\* leaves TLC's integers: the pledge is called with estimates at rest.
PledgeRewardEstimates == {e \in RewardEstimates : e.velocity = 0}

PledgeCall(fn, reward_estimate, network_qa_power_estimate, qa_power, projection_duration, baseline_power, circulating_supply, r) ==
    [fn |-> fn,
     reward_estimate |-> reward_estimate,
     network_qa_power_estimate |-> network_qa_power_estimate,
     qa_power |-> qa_power,
     projection_duration |-> projection_duration,
     baseline_power |-> baseline_power,
     circulating_supply |-> circulating_supply,
     outcome |-> r.outcome, result |-> r.value, ratio_sums |-> r.ratio_sums]

\* A call of expected_reward_for_power
ExpectedRewardForPower ==
    \E reward_estimate \in RewardEstimates,
       network_qa_power_estimate \in NetworkEstimates,
       qa_sector_power \in QaPowers,
       projection_duration \in ProjectionDurations :
        LET br == expected_reward_for_power(reward_estimate,
                      network_qa_power_estimate, qa_sector_power,
                      projection_duration)
        IN  /\ pcall = NoCall
            /\ pcall' = PledgeCall("expected_reward_for_power",
                            reward_estimate, network_qa_power_estimate,
                            qa_sector_power, projection_duration, 0, 0,
                            [outcome |-> "returned", value |-> br.value,
                             ratio_sums |-> br.ratio_sums])
            /\ UNCHANGED <<qcall, vm, vcall>>

\* A call of expected_reward_for_power_clamped_at_atto_fil
ExpectedRewardForPowerClampedAtAttoFil ==
    \E reward_estimate \in RewardEstimates,
       network_qa_power_estimate \in NetworkEstimates,
       qa_sector_power \in QaPowers,
       projection_duration \in ProjectionDurations :
        LET br == expected_reward_for_power_clamped_at_atto_fil(reward_estimate,
                      network_qa_power_estimate, qa_sector_power,
                      projection_duration)
        IN  /\ pcall = NoCall
            /\ pcall' = PledgeCall("expected_reward_for_power_clamped_at_atto_fil",
                            reward_estimate, network_qa_power_estimate,
                            qa_sector_power, projection_duration, 0, 0,
                            [outcome |-> "returned", value |-> br.value,
                             ratio_sums |-> br.ratio_sums])
            /\ UNCHANGED <<qcall, vm, vcall>>

\* A call of initial_pledge_for_power
InitialPledgeForPower ==
    \E qa_power \in QaPowers, baseline_power \in BaselinePowers,
       reward_estimate \in PledgeRewardEstimates,
       network_qa_power_estimate \in NetworkEstimates,
       circulating_supply \in CirculatingSupplies :
        LET ip == initial_pledge_for_power(qa_power, baseline_power,
                      reward_estimate, network_qa_power_estimate,
                      circulating_supply)
        IN  /\ pcall = NoCall
            /\ pcall' = PledgeCall("initial_pledge_for_power",
                            reward_estimate, network_qa_power_estimate,
                            qa_power, INITIAL_PLEDGE_PROJECTION_PERIOD,
                            baseline_power, circulating_supply,
                            [outcome |-> ip.outcome, value |-> ip.value,
                             ratio_sums |->
                                 IF estimate(network_qa_power_estimate) = 0
                                 THEN 0 ELSE 1])
            /\ UNCHANGED <<qcall, vm, vcall>>

----------------------------------------------------------------------------
(* Invariant-check helpers of the integration tests *)

MaxEpoch == 3

VmEpochs == 0..MaxEpoch
\* The reward actor's stored epoch; -1 is EPOCH_UNDEFINED
RewardStateEpochs == (-1)..(MaxEpoch + 2)

\* The VM at genesis: a loadable state tree whose reward state is at the
\* VM's epoch and whose power totals agree with the claims
GenesisVm ==
    [epoch |-> 0, reward_state_epoch |-> 0, power_totals_agree |-> TRUE,
     tree_loads |-> TRUE]

\* invariant_failure_patterns::REWARD_STATE_EPOCH_MISMATCH, and a pattern a
\* caller may supply for the power actor's totals
REWARD_STATE_EPOCH_MISMATCH == "^reward state epoch \\d+ does not match prior_epoch\\+1 \\d+$"
POWER_TOTALS_MISMATCH == "^power totals .* do not match claims$"
Patterns == {REWARD_STATE_EPOCH_MISMATCH, POWER_TOTALS_MISMATCH}

\* Regex::is_match on a message of the accumulator.  A message is kept as its
\* format and arguments; \d+ matches the decimal form of a number that has no
\* sign, so a negative argument does not match.
is_match(pattern, message) ==
    \/ /\ pattern = REWARD_STATE_EPOCH_MISMATCH
       /\ message.format = "reward state epoch {} does not match prior_epoch+1 {}"
       /\ message.args[1] >= 0
       /\ message.args[2] >= 0
    \/ /\ pattern = POWER_TOTALS_MISMATCH
       /\ message.format = "power totals {} do not match claims"

\* check_state_invariants(manifest, policy, tree, supply, prior_epoch): one
\* pass over the actors that records every mismatch as a message.
check_state_invariants(tree, prior_epoch) ==
    (IF tree.power_totals_agree THEN <<>>
     ELSE <<[format |-> "power totals {} do not match claims", args |-> <<0>>]>>)
    \o
    (IF tree.reward_state_epoch = prior_epoch + 1 THEN <<>>
     ELSE <<[format |-> "reward state epoch {} does not match prior_epoch+1 {}",
             args |-> <<tree.reward_state_epoch, prior_epoch + 1>>]>>)

\* MessageAccumulator::assert_empty: TRUE when the assertion passes
assert_empty(messages) == messages = <<>>

\* MessageAccumulator::assert_expected: TRUE when the assertion passes
assert_expected(messages, expected_patterns) ==
    /\ \A pattern \in expected_patterns :
           \E i \in 1..Len(messages) : is_match(pattern, messages[i])
    /\ \A i \in 1..Len(messages) :
           \E pattern \in expected_patterns : is_match(pattern, messages[i])

\* check_invariants passing the VM's own epoch as the prior epoch
check_invariants_at_epoch(v) == check_state_invariants(v, v.epoch)

\* check_invariants: the pass over the VM's state tree, with the epoch before
\* the VM's as the prior epoch.  The caller has excluded a tree that fails to
\* load (Tree::load(..).unwrap() panics).
check_invariants(v) == check_state_invariants(v, v.epoch - 1)

VerifierCall(fn, expected_patterns, messages, passes) ==
    [fn |-> fn, expected_patterns |-> expected_patterns,
     messages |-> messages,
     outcome |-> IF passes THEN "returned" ELSE "panicked"]

\* The tests' moves: set the VM's epoch and commit actor states
CommitState ==
    \E epoch \in VmEpochs, reward_state_epoch \in RewardStateEpochs,
       power_totals_agree \in BOOLEAN, tree_loads \in BOOLEAN :
        /\ vcall = NoCall
        /\ vm = GenesisVm
        /\ vm' = [epoch |-> epoch, reward_state_epoch |-> reward_state_epoch,
                  power_totals_agree |-> power_totals_agree,
                  tree_loads |-> tree_loads]
        /\ UNCHANGED <<qcall, pcall, vcall>>

\* A call of assert_invariants
AssertInvariants ==
    /\ vcall = NoCall
    /\ vcall' = IF ~vm.tree_loads
                THEN VerifierCall("assert_invariants", {}, <<>>, FALSE)
                ELSE LET acc == check_invariants(vm)
                     IN  VerifierCall("assert_invariants", {}, acc,
                                      assert_empty(acc))
    /\ UNCHANGED <<qcall, pcall, vm>>

\* A call of expect_invariants
ExpectInvariants ==
    \E expected_patterns \in SUBSET Patterns :
        /\ vcall = NoCall
        /\ vcall' = IF ~vm.tree_loads
                    THEN VerifierCall("expect_invariants", expected_patterns,
                                      <<>>, FALSE)
                    ELSE LET acc == check_invariants(vm)
                         IN  VerifierCall("expect_invariants", expected_patterns,
                                 acc, assert_expected(acc, expected_patterns))
        /\ UNCHANGED <<qcall, pcall, vm>>

----------------------------------------------------------------------------
Init ==
    /\ qcall = NoCall
    /\ pcall = NoCall
    /\ vm = GenesisVm
    /\ vcall = NoCall

NextQuality == QualityForWeight \/ QaPowerForWeight
SpecQuality == Init /\ [][NextQuality]_vars

NextPledge ==
    \/ ExpectedRewardForPower
    \/ ExpectedRewardForPowerClampedAtAttoFil
    \/ InitialPledgeForPower
SpecPledge == Init /\ [][NextPledge]_vars

NextVerifier == CommitState \/ AssertInvariants \/ ExpectInvariants
SpecVerifier == Init /\ [][NextVerifier]_vars

----------------------------------------------------------------------------
(* The claims *)

PledgeReturned ==
    pcall.fn = "initial_pledge_for_power" /\ pcall.outcome = "returned"

\* C1: whenever initial_pledge_for_power returns, the amount is at most
\* pledge_cap = floor(10^18 / 2^35) * qa_power = 29103830 * qa_power.
C1_PledgeAtMostCap ==
    PledgeReturned => pcall.result <= 29103830 * pcall.qa_power

\* C1 witness: a pledge whose nominal amount (60000000 of additional pledge
\* alone) is above the cap of one byte, and is cut to it
C1_Witness ==
    /\ PledgeReturned
    /\ pcall.qa_power = 1
    /\ pcall.circulating_supply = 200000000
    /\ pcall.result = 29103830

\* C2: expected_reward_for_power_clamped_at_atto_fil returns at least 1 atto:
\* exactly 1 when expected_reward_for_power on the same inputs is <= 0, and
\* that value otherwise.
C2_ClampedAtLeastOneAtto ==
    pcall.fn = "expected_reward_for_power_clamped_at_atto_fil" =>
        LET br == expected_reward_for_power(pcall.reward_estimate,
                      pcall.network_qa_power_estimate, pcall.qa_power,
                      pcall.projection_duration).value
        IN  /\ pcall.outcome = "returned"
            /\ pcall.result >= 1
            /\ (br <= 0 => pcall.result = 1)
            /\ (br > 0 => pcall.result = br)

\* C2 witness: a clamped call whose unclamped projection is zero (a negative
\* ratio sum clamped to zero), replaced by 1 atto
C2_Witness ==
    /\ pcall.fn = "expected_reward_for_power_clamped_at_atto_fil"
    /\ estimate(pcall.network_qa_power_estimate) # 0
    /\ pcall.reward_estimate.position < 0
    /\ pcall.qa_power > 0
    /\ pcall.projection_duration > 0
    /\ pcall.result = 1

\* C3: with a network QA power estimate whose current value is zero,
\* expected_reward_for_power returns the reward estimate's current value,
\* whatever the sector power and the projection duration, and evaluates no
\* ratio sum.
C3_ZeroNetworkPowerReturnsRewardEstimate ==
    (/\ pcall.fn = "expected_reward_for_power"
     /\ estimate(pcall.network_qa_power_estimate) = 0) =>
        /\ pcall.outcome = "returned"
        /\ pcall.result = estimate(pcall.reward_estimate)
        /\ pcall.ratio_sums = 0

\* C3 witness: a zero current value of a non-zero network position, with a
\* sector power and a duration that would otherwise count
C3_Witness ==
    /\ pcall.fn = "expected_reward_for_power"
    /\ pcall.network_qa_power_estimate.position > 0
    /\ estimate(pcall.network_qa_power_estimate) = 0
    /\ pcall.qa_power = 2
    /\ pcall.projection_duration = 3
    /\ pcall.reward_estimate.position = 3 * Pow2(PRECISION) + 1
    /\ pcall.result = 3

\* C4: with no deals, a sector of any size > 0 and duration > 0 has quality
\* 1 << 20 = 1048576 and a quality-adjusted power equal to its size.
C4_EmptySectorQuality ==
    (/\ qcall.fn # "none"
     /\ qcall.duration > 0
     /\ qcall.deal_weight = 0
     /\ qcall.verified_weight = 0) =>
        /\ qcall.outcome = "returned"
        /\ (qcall.fn = "quality_for_weight" => qcall.result = 1048576)
        /\ (qcall.fn = "qa_power_for_weight" => qcall.result = qcall.size)

\* C4 witness: the power of an empty sector of the largest size and duration
C4_Witness ==
    /\ qcall.fn = "qa_power_for_weight"
    /\ qcall.size = MaxSize
    /\ qcall.duration = MaxDuration
    /\ qcall.deal_weight = 0
    /\ qcall.verified_weight = 0
    /\ qcall.result = MaxSize

\* C5: a sector filled by verified deals (deal_weight = 0, verified_weight =
\* size * duration) has quality 10 << 20 = 10485760, with nothing lost to the
\* two floor divisions.
C5_FullVerifiedSectorQuality ==
    (/\ qcall.fn = "quality_for_weight"
     /\ qcall.duration > 0
     /\ qcall.deal_weight = 0
     /\ qcall.verified_weight = qcall.size * qcall.duration) =>
        /\ qcall.outcome = "returned"
        /\ qcall.result = 10485760

\* C5 witness: the quality of a size 3, duration 4 sector of verified deals
C5_Witness ==
    /\ qcall.fn = "quality_for_weight"
    /\ qcall.size = 3
    /\ qcall.duration = 4
    /\ qcall.deal_weight = 0
    /\ qcall.verified_weight = 12
    /\ qcall.result = 10485760

\* C10: when deal_weight + verified_weight <= size * duration, the quality
\* lies in [1 << 20, 10 << 20] and the quality-adjusted power in
\* [size, 10 * size].
C10_QualityAndPowerInRange ==
    (/\ qcall.fn # "none"
     /\ qcall.duration > 0
     /\ qcall.deal_weight + qcall.verified_weight
            <= qcall.size * qcall.duration) =>
        /\ qcall.outcome = "returned"
        /\ (qcall.fn = "quality_for_weight" =>
                1048576 <= qcall.result /\ qcall.result <= 10485760)
        /\ (qcall.fn = "qa_power_for_weight" =>
                qcall.size <= qcall.result /\ qcall.result <= 10 * qcall.size)

\* C10 witness: the power of a sector holding both kinds of deals and some
\* free space, strictly between the two ends of the range
C10_Witness ==
    /\ qcall.fn = "qa_power_for_weight"
    /\ qcall.deal_weight > 0
    /\ qcall.verified_weight > 0
    /\ qcall.deal_weight + qcall.verified_weight < qcall.size * qcall.duration
    /\ qcall.size < qcall.result
    /\ qcall.result < 10 * qcall.size

\* The reward estimate's current value and the network QA power estimate's
\* current value of the recorded call
RewardNow == estimate(pcall.reward_estimate)
NetworkNow == estimate(pcall.network_qa_power_estimate)

\* C7 as stated: expected_reward_for_power never returns a negative amount,
\* whatever the reward estimate and the network QA power estimate.
C7_AsStated_NeverNegative ==
    pcall.fn = "expected_reward_for_power" => pcall.result >= 0

\* C7 as amended: expected_reward_for_power returns an amount >= 0 whenever
\* the network estimate's current value is non-zero or the reward estimate's
\* current value is >= 0.  In the non-degenerate branch the result is
\* max(0, (qa_sector_power * cum_sum_of_ratio) >> PRECISION); in the
\* degenerate branch it is the reward estimate's current value, unclamped.
C7_NonNegativeOutsideDegenerateNoise ==
    pcall.fn = "expected_reward_for_power" =>
        /\ (NetworkNow # 0 \/ RewardNow >= 0) => pcall.result >= 0
        /\ NetworkNow # 0 =>
               LET cum_sum_of_ratio ==
                       extrapolated_cum_sum_of_ratio(pcall.projection_duration,
                           0, pcall.reward_estimate,
                           pcall.network_qa_power_estimate)
                   shifted == (pcall.qa_power * cum_sum_of_ratio)
                                  \div Pow2(PRECISION)
               IN  pcall.result = IF shifted > 0 THEN shifted ELSE 0
        /\ (NetworkNow = 0 /\ RewardNow < 0) => pcall.result = RewardNow

\* C7 witness: a non-degenerate call whose projection is negative (a negative
\* reward position over a positive window) and is clamped to zero
C7_Witness ==
    /\ pcall.fn = "expected_reward_for_power"
    /\ NetworkNow # 0
    /\ pcall.qa_power > 0
    /\ pcall.projection_duration > 0
    /\ extrapolated_cum_sum_of_ratio(pcall.projection_duration, 0,
           pcall.reward_estimate, pcall.network_qa_power_estimate) < 0
    /\ pcall.result = 0

\* C8: with a network QA power estimate whose current value is zero,
\* initial_pledge_for_power returns an amount for every qa_power >= 0,
\* baseline_power >= 0 and circulating_supply >= 0: its divisor is never zero.
C8_ZeroNetworkPowerPledgeReturns ==
    (pcall.fn = "initial_pledge_for_power" /\ NetworkNow = 0) =>
        pcall.outcome = "returned"

RewardEpochOffByOne ==
    /\ vm.tree_loads
    /\ vm.power_totals_agree
    /\ vm.reward_state_epoch = (vm.epoch - 1) + 2

\* C6: on a snapshot whose reward epoch is prior_epoch + 2 the pass records
\* the mismatch as a message: assert_invariants fails, and expect_invariants
\* with REWARD_STATE_EPOCH_MISMATCH passes on a report of exactly one
\* violation, which matches the pattern.  On any loadable snapshot,
\* expect_invariants passes exactly when every message matches some supplied
\* pattern and every supplied pattern matches some message.
C6_VerifierConsumptionModes ==
    /\ (vcall.fn = "assert_invariants" /\ RewardEpochOffByOne) =>
           /\ vcall.outcome = "panicked"
           /\ Len(vcall.messages) = 1
    /\ (/\ vcall.fn = "expect_invariants"
        /\ RewardEpochOffByOne
        /\ vcall.expected_patterns = {REWARD_STATE_EPOCH_MISMATCH}) =>
           /\ vcall.outcome = "returned"
           /\ Len(vcall.messages) = 1
           /\ vcall.messages[1].format =
                  "reward state epoch {} does not match prior_epoch+1 {}"
           /\ vcall.messages[1].args = <<vm.epoch + 1, vm.epoch>>
           /\ is_match(REWARD_STATE_EPOCH_MISMATCH, vcall.messages[1])
    /\ (vcall.fn = "expect_invariants" /\ vm.tree_loads) =>
           (vcall.outcome = "returned" <=>
               /\ \A i \in 1..Len(vcall.messages) :
                      \E pattern \in vcall.expected_patterns :
                          is_match(pattern, vcall.messages[i])
               /\ \A pattern \in vcall.expected_patterns :
                      \E i \in 1..Len(vcall.messages) :
                          is_match(pattern, vcall.messages[i]))

\* C6 witness: expect_invariants has passed on the scenario's snapshot at a
\* later epoch, with the one message in its report
C6_Witness ==
    /\ vcall.fn = "expect_invariants"
    /\ RewardEpochOffByOne
    /\ vm.epoch = 2
    /\ vcall.expected_patterns = {REWARD_STATE_EPOCH_MISMATCH}
    /\ vcall.outcome = "returned"
    /\ Len(vcall.messages) = 1

====
